---- MODULE Spec2Model ----
(***************************************************************************)
(* Model of pxp-agent's bolt helpers: downloadFileFromMaster (the cache    *)
(* installer), downloadFileWithCurl (the fallback downloader) and          *)
(* calculateSha256 (the integrity verifier).                               *)
(*                                                                         *)
(* The filesystem is the destination path (shared by all callers) and one  *)
(* temp path per caller (fs::unique_path gives every call its own name).   *)
(* The HTTP transport and read faults of the disk are the environment:     *)
(* every attempt draws its outcome, and every digest computation draws     *)
(* whether a read fails, from the sets below.                              *)
(***************************************************************************)
EXTENDS Integers, Sequences, FiniteSets, TLC

\* ------------------------------------------------------------------ bounds
\* Longest master_uris list of a call of the single caller (Spec).
MaxMirrors == 3
\* Calls one caller makes in a row under Spec.
MaxCalls == 2
\* Longest master_uris list of a call under the two-caller specifications.
PairMirrors == 1
\* Calls the two concurrent callers make between them under SpecConc.
ConcCalls == 2
\* Whole 32 kB chunks in a completely transferred file.
FullChunks == 1
\* Most whole chunks in a file handed to calculateSha256 on its own (SpecSha).
ShaChunks == 2
\* Most members of the params object handed to createUrlEndpoint (SpecUrl).
MaxParams == 2

\* ------------------------------------------------------- program constants
\* constexpr std::streamsize CHUNK_SIZE = 0x8000
CHUNK_SIZE == 32768
\* NIX_DIR_PERMS: rwx for the user, rx for the group
NIX_TASK_FILE_PERMS == "rwxr-x---"

\* ------------------------------------------------------------- value sets
Procs == {1, 2}
\* A path that holds nothing.
Absent == [exists |-> FALSE, src |-> "", len |-> 0, perms |-> ""]
Streams == {"a", "b"}
\* A complete file is FullChunks chunks plus one byte; a truncated transfer
\* stops on the last chunk boundary.
FullLen == FullChunks * CHUNK_SIZE + 1
PartLen == FullChunks * CHUNK_SIZE
\* File content: the first len bytes of the byte stream src.
Contents == {c \in [src : Streams, len : {PartLen, FullLen}] :
                c.src = "a" \/ c.len = FullLen}
Perms == {NIX_TASK_FILE_PERMS, "rw-r--r--"}
\* A file: its content and its permission bits.
File(c, q) == [exists |-> TRUE, src |-> c.src, len |-> c.len, perms |-> q]
Files == {File(c, q) : c \in Contents, q \in Perms}
ContentOf(f) == [src |-> f.src, len |-> f.len]
NoError == -1
\* Byte offset at which a read of the disk fails (NoError: it does not).
ReadFaults == {NoError, 0}

\* SHA-256 of a byte string, as lowercase hex: the hash is collision free on
\* the contents of the model, so a digest names the bytes that were hashed.
\* The empty byte string is the same in every stream.
Sha256Of(c) == [stream |-> IF c.len = 0 THEN "" ELSE c.src,
                bytes |-> c.len, hex |-> "lower"]
\* The sha256 fields callers supply: digests of complete files.
Shas == {Sha256Of(c) : c \in {d \in Contents : d.len = FullLen}}

\* The ProcessingError "Error while reading {1}" in place of a digest.
ReadError == [stream |-> "", bytes |-> 0, hex |-> "ReadError"]
\* No sha256 yet: the caller has not called.
NoSha == [stream |-> "", bytes |-> 0, hex |-> "none"]

Min(a, b) == IF a < b THEN a ELSE b
Last(s) == s[Len(s)]

\* ------------------------------------------------------- calculateSha256
\* EVP_DigestInit_ex
DigestInit == [stream |-> "", bytes |-> 0, good |-> TRUE]
\* Faulty variant: the whole buffer is fed whatever the read got.
DigestUpdateWholeBuffer(md, src, off, got, count) ==
    IF md.good /\ CHUNK_SIZE <= got /\ off = md.bytes
               /\ (md.bytes = 0 \/ md.stream = src)
    THEN [stream |-> src, bytes |-> md.bytes + CHUNK_SIZE, good |-> TRUE]
    ELSE [md EXCEPT !.good = FALSE]

\* EVP_DigestUpdate(mdctx, buffer, count): buffer holds the bytes
\* [off, off + got) of the file; count of them are fed.
DigestUpdate(md, src, off, got, count) ==
    IF count = 0 THEN md
    ELSE IF md.good /\ count <= got /\ off = md.bytes
                    /\ (md.bytes = 0 \/ md.stream = src)
         THEN [stream |-> src, bytes |-> md.bytes + count, good |-> TRUE]
         ELSE [md EXCEPT !.good = FALSE]
\* EVP_DigestFinal_ex, alg::hex and the std::transform to lower case.
DigestFinalHex(md) ==
    IF md.good THEN [stream |-> md.stream, bytes |-> md.bytes, hex |-> "lower"]
    ELSE [stream |-> "garbage", bytes |-> md.bytes, hex |-> "lower"]

\* The read loop from offset off on; fault is the offset whose read fails.
RECURSIVE ReadChunks(_, _, _, _)
ReadChunks(c, fault, off, md) ==
    LET got == Min(CHUNK_SIZE, c.len - off) IN
    IF fault >= off /\ fault < off + got
    THEN ReadError                        \* read fails, eof not reached
    ELSE IF got = CHUNK_SIZE
    THEN ReadChunks(c, fault, off + CHUNK_SIZE,
                    DigestUpdate(md, c.src, off, got, CHUNK_SIZE))
    ELSE DigestFinalHex(DigestUpdate(md, c.src, off, got, got))

\* calculateSha256(path): f is what the path holds.  A path that cannot be
\* opened makes the first read fail without reaching eof.
calculateSha256(f, fault) ==
    IF ~f.exists THEN ReadError
    ELSE ReadChunks(ContentOf(f), fault, 0, DigestInit)

\* What calculateSha256 is handed when it is exercised on its own: files of
\* every length class around the chunk size, and disks that fail at a chunk
\* boundary or not at all.
ShaLens == {k * CHUNK_SIZE + r : k \in 0..ShaChunks, r \in {0, 1, CHUNK_SIZE - 1}}
ShaFiles == {File([src |-> s, len |-> n], q) :
                s \in Streams, n \in ShaLens, q \in Perms}
ShaFaults == {NoError} \cup {k * CHUNK_SIZE : k \in 0..ShaChunks}
ShaInputs == [file : ShaFiles, fault : ShaFaults]

\* ------------------------------------------------------- createUrlEndpoint
\* Strings are sequences of characters.  The strings a params object holds:
\* plain ones, and ones with the characters the query syntax reserves.
UrlStrings == {<<>>, <<"k">>, <<"&">>, <<"=">>, <<"k", "&", "v">>,
               <<"a", " ", "+", ":">>}
UrlPaths == {<<"/">>, <<"/", "t">>}
\* A params object: its members in document order, keys distinct.
UrlParams ==
    UNION {{m \in [1..n -> [key : UrlStrings, val : UrlStrings]] :
               \A i, j \in 1..n : i # j => m[i].key # m[j].key} :
           n \in 0..MaxParams}
\* The uri container: "path", and "params" if present.
UrlInputs == {u \in [path : UrlPaths, present : BOOLEAN, params : UrlParams] :
                 ~u.present => Len(u.params) = 0}
NoUri == [path |-> <<>>, present |-> FALSE, params |-> <<>>]

\* The characters curl_easy_escape leaves as they are: A-Z a-z 0-9 - . _ ~
Unreserved ==
    {"a", "b", "c", "d", "e", "f", "g", "h", "i", "j", "k", "l", "m", "n",
     "o", "p", "q", "r", "s", "t", "u", "v", "w", "x", "y", "z", "A", "B",
     "C", "D", "E", "F", "G", "H", "I", "J", "K", "L", "M", "N", "O", "P",
     "Q", "R", "S", "T", "U", "V", "W", "X", "Y", "Z", "0", "1", "2", "3",
     "4", "5", "6", "7", "8", "9", "-", ".", "_", "~"}
\* The two upper-case hex digits of the other printable ASCII characters
\* (all but the grave accent, 60, which a string here cannot hold).
HexOf(ch) ==
    CASE ch = " " -> <<"2", "0">>
      [] ch = "!" -> <<"2", "1">>
      [] ch = "\"" -> <<"2", "2">>
      [] ch = "#" -> <<"2", "3">>
      [] ch = "$" -> <<"2", "4">>
      [] ch = "%" -> <<"2", "5">>
      [] ch = "&" -> <<"2", "6">>
      [] ch = "'" -> <<"2", "7">>
      [] ch = "(" -> <<"2", "8">>
      [] ch = ")" -> <<"2", "9">>
      [] ch = "*" -> <<"2", "A">>
      [] ch = "+" -> <<"2", "B">>
      [] ch = "," -> <<"2", "C">>
      [] ch = "/" -> <<"2", "F">>
      [] ch = ":" -> <<"3", "A">>
      [] ch = ";" -> <<"3", "B">>
      [] ch = "<" -> <<"3", "C">>
      [] ch = "=" -> <<"3", "D">>
      [] ch = ">" -> <<"3", "E">>
      [] ch = "?" -> <<"3", "F">>
      [] ch = "@" -> <<"4", "0">>
      [] ch = "[" -> <<"5", "B">>
      [] ch = "\\" -> <<"5", "C">>
      [] ch = "]" -> <<"5", "D">>
      [] ch = "^" -> <<"5", "E">>
      [] ch = "{" -> <<"7", "B">>
      [] ch = "|" -> <<"7", "C">>
      [] ch = "}" -> <<"7", "D">>
\* curl_easy_escape on one character: an unreserved one stays, any other
\* becomes %XX.
EscapeChar(ch) ==
    IF ch \in Unreserved THEN <<ch>> ELSE <<"%">> \o HexOf(ch)
\* lth_curl::curl_escaped_string(curl_handle, str)
RECURSIVE curl_escaped_string(_)
curl_escaped_string(str) ==
    IF Len(str) = 0 THEN <<>>
    ELSE EscapeChar(Head(str)) \o curl_escaped_string(Tail(str))
\* params.keys(): the member names in document order.
Keys(params) == [i \in 1..Len(params) |-> params[i].key]
\* params.get<std::string>(key)
GetString(params, key) ==
    params[CHOOSE i \in 1..Len(params) :
              /\ params[i].key = key
              /\ \A j \in 1..(i - 1) : params[j].key # key].val
\* Faulty variant: the trailing ampersand stays.
PopBackNever(url) == url

\* url.pop_back()
PopBack(url) == SubSeq(url, 1, Len(url) - 1)
\* The loop of lines 137-141, from the i-th key on.
RECURSIVE AppendParams(_, _, _, _)
AppendParams(url, params, keys, i) ==
    IF i > Len(keys) THEN url
    ELSE LET escaped_key == curl_escaped_string(keys[i])
             escaped_val == curl_escaped_string(GetString(params, keys[i]))
         IN AppendParams(url \o escaped_key \o <<"=">> \o escaped_val \o <<"&">>,
                         params, keys, i + 1)
\* createUrlEndpoint(uri)
createUrlEndpoint(u) ==
    LET url == u.path
        params == IF u.present THEN u.params ELSE <<>>
    IN IF Len(params) = 0 THEN url
       ELSE PopBack(AppendParams(url \o <<"?">>, params, Keys(params), 1))

\* --------------------------------------------------------------- transport
\* What one client.download_file call does: the response class, and what it
\* leaves at file_path (nothing, a complete file, a truncated one, other
\* content), whatever the class.  A download that succeeded has set
\* NIX_TASK_FILE_PERMS on the file; one that failed has not.
Kinds == {"ok", "http_error", "file_download_exception", "request_exception"}
MirrorLocal == {"http_error", "file_download_exception"}
Outcomes ==
    {o \in [kind : Kinds, left : {Absent} \cup Files] :
        o.left.exists =>
            o.left.perms = (IF o.kind = "ok" THEN NIX_TASK_FILE_PERMS
                            ELSE "rw-r--r--")}

\* Error messages: what failed, and the mirror it names (0: none).
Msg(what, mirror) == [what |-> what, mirror |-> mirror]
NoMsg == Msg("", 0)
Errors == {"ConfigError", "DownloadError", "IntegrityError", "ReadError"}

VARIABLES
    dest,             \* what the destination path holds: Absent or a file
    pc,               \* per caller: where it is in downloadFileFromMaster
    ncalls,           \* per caller: calls started
    sha256,           \* per call: file.get("sha256")
    master_uris,      \* per call: number of master uris (mirrors 1..n)
    seen,             \* per call: what the check on line 43 found
    temp,             \* per call: what the path tempname holds
    idx,              \* per call: mirror the loop is at
    tried,            \* per call: outcomes of the GETs issued, in order
    warnings,         \* per call: mirrors named by LOG_WARNING, in order
    download_result,  \* per call: the tuple (success, err_msg)
    ret,              \* per call: "none", "destination" or the error kind
    errmsg,           \* per call: message of the error thrown
    io,               \* per call: kinds of filesystem/transport calls made
    sha_in,           \* files (and disks) handed to calculateSha256, in order
    sha_out,          \* what calculateSha256 returned for them so far
    uri,              \* the uri container handed to createUrlEndpoint
    endpoint          \* what createUrlEndpoint returned for it, call by call

vars == <<dest, pc, ncalls, sha256, master_uris, seen, temp, idx, tried,
          warnings, download_result, ret, errmsg, io,
          sha_in, sha_out, uri, endpoint>>
\* The variables of the two helpers exercised on their own.
purevars == <<sha_in, sha_out, uri, endpoint>>

callvars == <<sha256, master_uris, ncalls>>

InitCalls ==
    /\ dest \in {Absent} \cup Files
    /\ pc = [p \in Procs |-> "idle"]
    /\ ncalls = [p \in Procs |-> 0]
    /\ sha256 = [p \in Procs |-> NoSha]
    /\ master_uris = [p \in Procs |-> 0]
    /\ seen = [p \in Procs |-> "none"]
    /\ temp = [p \in Procs |-> Absent]
    /\ idx = [p \in Procs |-> 0]
    /\ tried = [p \in Procs |-> <<>>]
    /\ warnings = [p \in Procs |-> <<>>]
    /\ download_result = [p \in Procs |-> [ok |-> FALSE, msg |-> NoMsg]]
    /\ ret = [p \in Procs |-> "none"]
    /\ errmsg = [p \in Procs |-> NoMsg]
    /\ io = [p \in Procs |-> {}]
\* No helper is exercised on its own.
Init ==
    /\ InitCalls
    /\ sha_in = <<>> /\ sha_out = <<>>
    /\ uri = NoUri /\ endpoint = <<>>

\* A caller enters downloadFileFromMaster with a sha256 and n master uris.
\* tempname names a fresh path: nothing is there.
Call(p, maxUris, maxCalls) ==
    /\ pc[p] \in {"idle", "done"}
    /\ ncalls[p] < maxCalls
    /\ \E s \in Shas, n \in 0..maxUris :
          /\ sha256' = [sha256 EXCEPT ![p] = s]
          /\ master_uris' = [master_uris EXCEPT ![p] = n]
    /\ ncalls' = [ncalls EXCEPT ![p] = @ + 1]
    /\ pc' = [pc EXCEPT ![p] = "check"]
    /\ seen' = [seen EXCEPT ![p] = "none"]
    /\ temp' = [temp EXCEPT ![p] = Absent]
    /\ idx' = [idx EXCEPT ![p] = 0]
    /\ tried' = [tried EXCEPT ![p] = <<>>]
    /\ warnings' = [warnings EXCEPT ![p] = <<>>]
    /\ download_result' = [download_result EXCEPT ![p] = [ok |-> FALSE, msg |-> NoMsg]]
    /\ ret' = [ret EXCEPT ![p] = "none"]
    /\ errmsg' = [errmsg EXCEPT ![p] = NoMsg]
    /\ io' = [io EXCEPT ![p] = {}]
    /\ UNCHANGED dest
    /\ UNCHANGED purevars

\* throw Module::ProcessingError: the call ends with error kind e.
Throw(p, e, m) ==
    /\ pc' = [pc EXCEPT ![p] = "done"]
    /\ ret' = [ret EXCEPT ![p] = e]
    /\ errmsg' = [errmsg EXCEPT ![p] = m]

\* Faulty variant: the cached file is never trusted, the download always runs.
AfterCheckAlwaysDownload(found) == "uris"

\* Where line 43 sends the call: into the if (44-45) or past it (48).
AfterCheck(found) == IF found = "match" THEN "fast" ELSE "uris"

\* Line 43: fs::exists(destination) && sha256 == calculateSha256(destination)
\* One step: the destination is never removed, so a file that exists is
\* still there when it is opened, and an open file is read to its end
\* whatever is renamed over its name meanwhile.
CheckDestination(p) ==
    /\ pc[p] = "check"
    /\ \E fault \in ReadFaults :
         LET found == IF ~dest.exists THEN "absent"
                      ELSE LET d == calculateSha256(dest, fault) IN
                           IF d = ReadError THEN "ReadError"
                           ELSE IF d = sha256[p] THEN "match" ELSE "mismatch"
         IN /\ seen' = [seen EXCEPT ![p] = found]
            /\ io' = [io EXCEPT ![p] = @ \cup (IF ~dest.exists THEN {"exists"}
                                               ELSE {"exists", "read"})]
            /\ IF found = "ReadError"
               THEN Throw(p, "ReadError", Msg("reading destination", 0))
               ELSE /\ pc' = [pc EXCEPT ![p] = AfterCheck(found)]
                    /\ UNCHANGED <<ret, errmsg>>
    /\ UNCHANGED <<dest, callvars, temp, idx, tried, warnings, download_result>>
    /\ UNCHANGED purevars

\* Lines 44-45: fs::permissions(destination, NIX_TASK_FILE_PERMS); return
FastPath(p) ==
    /\ pc[p] = "fast"
    /\ dest' = IF ~dest.exists THEN dest
               ELSE [dest EXCEPT !.perms = NIX_TASK_FILE_PERMS]
    /\ io' = [io EXCEPT ![p] = @ \cup {"permissions"}]
    /\ pc' = [pc EXCEPT ![p] = "done"]
    /\ ret' = [ret EXCEPT ![p] = "destination"]
    /\ UNCHANGED <<callvars, seen, temp, idx, tried, warnings, download_result, errmsg>>
    /\ UNCHANGED purevars

\* Faulty variant: the emptiness test is lost.
NoMasterUrisNever(n) == FALSE

\* master_uris.empty()
NoMasterUris(n) == n = 0

\* Faulty variant: the temp name is made before master_uris is looked at.
CheckUrisAfterTemp(p) ==
    /\ pc[p] = "uris"
    /\ io' = [io EXCEPT ![p] = @ \cup {"unique_path"}]
    /\ IF NoMasterUris(master_uris[p])
       THEN /\ Throw(p, "ConfigError", Msg("no master-uris", 0))
            /\ UNCHANGED idx
       ELSE /\ pc' = [pc EXCEPT ![p] = "download"]
            /\ idx' = [idx EXCEPT ![p] = 1]
            /\ UNCHANGED <<ret, errmsg>>
    /\ UNCHANGED <<dest, callvars, seen, temp, tried, warnings, download_result>>
    /\ UNCHANGED purevars

\* Lines 48-52: the master_uris.empty() check, then the temp name.
CheckUris(p) ==
    /\ pc[p] = "uris"
    /\ IF NoMasterUris(master_uris[p])
       THEN /\ Throw(p, "ConfigError", Msg("no master-uris", 0))
            /\ UNCHANGED <<io, idx>>
       ELSE /\ pc' = [pc EXCEPT ![p] = "download"]
            /\ io' = [io EXCEPT ![p] = @ \cup {"unique_path"}]
            /\ idx' = [idx EXCEPT ![p] = 1]
            /\ UNCHANGED <<ret, errmsg>>
    /\ UNCHANGED <<dest, callvars, seen, temp, tried, warnings, download_result>>
    /\ UNCHANGED purevars

\* ---------------------------------------------------- downloadFileWithCurl
\* Faulty variant: setup-class failures are swallowed like the others.
IsFatalNever(kind) == FALSE

\* catch (http_request_exception&): the setup-class failures abort the loop.
IsFatal(kind) == kind = "request_exception"
\* resp.status_code() >= 400 is rethrown as, and the transport's own
\* file-download failure is, an http_file_download_exception.
IsFileDownloadException(kind) == kind \in MirrorLocal
\* Faulty variant: the warning is not logged.
LogWarningDropped(log, mirror) == log

\* LOG_WARNING("Downloading the task file from the master-uri '{1}' failed...")
LogWarning(log, mirror) == Append(log, mirror)
\* Faulty variants: only the first message is kept; no message is kept.
RecordMessageFirst(result, kind, mirror) ==
    IF result.msg = NoMsg THEN [result EXCEPT !.msg = Msg(kind, mirror)]
    ELSE result
RecordMessageNever(result, kind, mirror) == result

\* std::get<1>(result) = e.what()
RecordMessage(result, kind, mirror) == [result EXCEPT !.msg = Msg(kind, mirror)]
\* Faulty variant: a file at file_path does not end the loop.
FileArrivedNever(t) == FALSE

\* if (fs::exists(file_path)) { std::get<0>(result) = true; return result; }
FileArrived(t) == t.exists
\* Faulty variant: the loop does not move on to the next master uri.
NextMirrorSame(k) == k

\* for (auto& master_uri : master_uris): the next element.
NextMirror(k) == k + 1
\* The record of one GET: its outcome, and the mirror it went to.
Tried(o, k) == [kind |-> o.kind, left |-> o.left, mirror |-> k]

\* One iteration of the loop over master_uris (lines 94-124); a file at
\* file_path ends the loop and the call goes on to line 71.
Attempt(p) ==
    /\ pc[p] = "download"
    /\ idx[p] \in 1..master_uris[p]
    /\ \E o \in Outcomes :
         LET k == idx[p]
             res == IF IsFileDownloadException(o.kind)
                    THEN RecordMessage(download_result[p], o.kind, k)
                    ELSE download_result[p]
         IN /\ tried' = [tried EXCEPT ![p] = Append(@, Tried(o, k))]
            /\ temp' = [temp EXCEPT ![p] = o.left]
            /\ warnings' = [warnings EXCEPT ![p] =
                              IF IsFileDownloadException(o.kind)
                              THEN LogWarning(@, k) ELSE @]
            /\ IF IsFatal(o.kind)
               THEN /\ Throw(p, "DownloadError", Msg("request_exception", k))
                    /\ io' = [io EXCEPT ![p] = @ \cup {"GET"}]
                    /\ UNCHANGED <<download_result, idx>>
               ELSE /\ io' = [io EXCEPT ![p] = @ \cup {"GET", "exists"}]
                    /\ IF FileArrived(o.left)
                       THEN /\ download_result' = [download_result EXCEPT ![p] =
                                                     [res EXCEPT !.ok = TRUE]]
                            /\ pc' = [pc EXCEPT ![p] = "verify"]
                            /\ UNCHANGED <<ret, errmsg, idx>>
                       ELSE /\ download_result' = [download_result EXCEPT ![p] = res]
                            /\ idx' = [idx EXCEPT ![p] = NextMirror(k)]
                            /\ UNCHANGED <<pc, ret, errmsg>>
    /\ UNCHANGED <<dest, callvars, seen>>
    /\ UNCHANGED purevars

\* The loop is over with no file at file_path: return result (line 126),
\* and downloadFileFromMaster throws on !std::get<0> (lines 64-69).
DownloadFailed(p) ==
    /\ pc[p] = "download"
    /\ idx[p] > master_uris[p]
    /\ Throw(p, "DownloadError", download_result[p].msg)
    /\ UNCHANGED <<dest, callvars, seen, temp, idx, tried, warnings,
                   download_result, io>>
    /\ UNCHANGED purevars

\* ------------------------------------------ downloadFileFromMaster, the end
\* Faulty variants: the comparison is lost; only the length hashed is compared.
ShaDiffersNever(expected, digest) == FALSE
ShaDiffersInLength(expected, digest) == expected.bytes # digest.bytes

\* sha256 != calculateSha256(tempname.string())
ShaDiffers(expected, digest) == expected # digest
\* Faulty variants: nothing is removed; the destination is removed instead.
KeepTemp(t, d) == [temp |-> t, dest |-> d]
RemoveDestination(t, d) == [temp |-> t, dest |-> Absent]

\* fs::remove(tempname), on the two paths (tempname, destination).
RemoveTemp(t, d) == [temp |-> Absent, dest |-> d]
\* Faulty variant: the rename copies, and tempname stays.
RenameCopies(t, d) == [temp |-> t, dest |-> t]

\* fs::rename(tempname, destination): one atomic replacement.
RenameTemp(t, d) == [temp |-> Absent, dest |-> t]

\* Lines 71-74: verify what the download left at tempname.
Verify(p) ==
    /\ pc[p] = "verify"
    /\ \E fault \in ReadFaults :
         LET d == calculateSha256(temp[p], fault) IN
         IF d = ReadError
         THEN /\ Throw(p, "ReadError", Msg("reading tempname", 0))
              /\ io' = [io EXCEPT ![p] = @ \cup {"read"}]
              /\ UNCHANGED <<temp, dest>>
         ELSE IF ShaDiffers(sha256[p], d)
         THEN /\ temp' = [temp EXCEPT ![p] = RemoveTemp(temp[p], dest).temp]
              /\ dest' = RemoveTemp(temp[p], dest).dest
              /\ io' = [io EXCEPT ![p] = @ \cup {"read", "remove"}]
              /\ Throw(p, "IntegrityError", Msg("sha differs", 0))
         ELSE /\ pc' = [pc EXCEPT ![p] = "rename"]
              /\ io' = [io EXCEPT ![p] = @ \cup {"read"}]
              /\ UNCHANGED <<temp, dest, ret, errmsg>>
    /\ UNCHANGED <<callvars, seen, idx, tried, warnings, download_result>>
    /\ UNCHANGED purevars

\* Lines 75-76: fs::rename(tempname, destination); return destination
Rename(p) ==
    /\ pc[p] = "rename"
    /\ dest' = RenameTemp(temp[p], dest).dest
    /\ temp' = [temp EXCEPT ![p] = RenameTemp(temp[p], dest).temp]
    /\ io' = [io EXCEPT ![p] = @ \cup {"rename"}]
    /\ pc' = [pc EXCEPT ![p] = "done"]
    /\ ret' = [ret EXCEPT ![p] = "destination"]
    /\ UNCHANGED <<callvars, seen, idx, tried, warnings, download_result, errmsg>>
    /\ UNCHANGED purevars

\* The steps of a call once it has been entered.
Step(p) ==
    \/ CheckDestination(p)
    \/ FastPath(p)
    \/ CheckUris(p)
    \/ Attempt(p)
    \/ DownloadFailed(p)
    \/ Verify(p)
    \/ Rename(p)

\* ---------------------------------------------------------- specifications
\* One caller, calling again and again.
Next ==
    \/ Call(1, MaxMirrors, MaxCalls)
    \/ Step(1)
Spec == Init /\ [][Next]_vars
\* One caller whose transport calls and filesystem operations all return:
\* a call in progress keeps taking its next step.
SpecLive == Spec /\ WF_vars(Step(1))

\* Two callers of the same destination, ConcCalls calls between them.
NextConc ==
    \E p \in Procs :
        \/ (ncalls[1] + ncalls[2] < ConcCalls /\ Call(p, PairMirrors, ConcCalls))
        \/ Step(p)
SpecConc == Init /\ [][NextConc]_vars

\* Two concurrent calls, one by each caller, on a destination that is absent
\* or holds an old file.
OldContent == [src |-> "a", len |-> PartLen]
InitPair == Init /\ (dest.exists => ContentOf(dest) = OldContent)
NextPair ==
    \E p \in Procs :
        \/ Call(p, PairMirrors, 1)
        \/ Step(p)
SpecPair == InitPair /\ [][NextPair]_vars

\* calculateSha256 on its own: two files, hashed one after the other.
InitSha ==
    /\ InitCalls /\ dest = Absent
    /\ sha_in \in [1..2 -> ShaInputs] /\ sha_out = <<>>
    /\ uri = NoUri /\ endpoint = <<>>
HashFile ==
    /\ Len(sha_out) < Len(sha_in)
    /\ LET arg == sha_in[Len(sha_out) + 1]
       IN sha_out' = Append(sha_out, calculateSha256(arg.file, arg.fault))
    /\ UNCHANGED <<dest, pc, ncalls, sha256, master_uris, seen, temp, idx, tried,
                   warnings, download_result, ret, errmsg, io,
                   sha_in, uri, endpoint>>
NextSha == HashFile
SpecSha == InitSha /\ [][NextSha]_vars

\* createUrlEndpoint on its own: one uri, built twice.
InitUrl ==
    /\ InitCalls /\ dest = Absent
    /\ sha_in = <<>> /\ sha_out = <<>>
    /\ uri \in UrlInputs /\ endpoint = <<>>
BuildEndpoint ==
    /\ Len(endpoint) < 2
    /\ endpoint' = Append(endpoint, createUrlEndpoint(uri))
    /\ UNCHANGED <<dest, pc, ncalls, sha256, master_uris, seen, temp, idx, tried,
                   warnings, download_result, ret, errmsg, io,
                   sha_in, sha_out, uri>>
NextUrl == BuildEndpoint
SpecUrl == InitUrl /\ [][NextUrl]_vars

\* ------------------------------------------------------------ properties
\* The digest a reader of file f computes when the disk reads without fault.
Digest(f) == calculateSha256(f, NoError)
Finished(p) == pc[p] = "done"
\* The content at the destination path is not what it was.
ContentChanged ==
    dest'.exists # dest.exists \/ ContentOf(dest') # ContentOf(dest)
\* Caller p takes a step.
StepOf(p) == <<pc[p], idx[p], ncalls[p]>>' # <<pc[p], idx[p], ncalls[p]>>
\* Some GET of p's call left content whose digest is not the expected one.
ServedCorrupt(p) ==
    \E j \in 1..Len(tried[p]) :
        tried[p][j].left.exists /\ Digest(tried[p][j].left) # sha256[p]
\* No GET of p's call left content whose digest is the expected one.
NoMatchServed(p) ==
    \A j \in 1..Len(tried[p]) :
        ~(tried[p][j].left.exists /\ Digest(tried[p][j].left) = sha256[p])

\* C1: under any interleaving of calls and any transport outcomes, the
\* content at the destination changes only by the rename of a call whose
\* temp file is complete at tempname and has the digest that call expects:
\* so the destination is absent, or holds its initial content, or holds a
\* file verified against the expectedDigest of the call that renamed it, and
\* no partially written destination is ever visible.
C1_DestinationOnlyVerified ==
    [][ContentChanged =>
          \E p \in Procs :
              /\ pc[p] = "rename" /\ pc'[p] = "done"
              /\ temp[p].exists /\ dest' = temp[p]
              /\ Digest(temp[p]) = sha256[p]]_vars
\* Two callers were downloading, one was served corrupt content, and the
\* destination holds what the other renamed into place.
C1_Witness ==
    \E p, q \in Procs :
        /\ p # q /\ Finished(p) /\ "rename" \in io[p]
        /\ dest.exists /\ Digest(dest) = sha256[p]
        /\ "GET" \in io[q] /\ ServedCorrupt(q)

\* C2: with two concurrent calls on one destination, whatever a reader finds
\* at the destination has the digest of the old file or the digest expected
\* by one of the two calls.
C2_DigestOldOrNew ==
    dest.exists =>
        Digest(dest) \in {Digest(File(OldContent, NIX_TASK_FILE_PERMS)),
                          sha256[1], sha256[2]}
\* Both calls renamed, with different expected digests, over an old file
\* that matched neither.
C2_Witness ==
    /\ "rename" \in io[1] /\ "rename" \in io[2]
    /\ sha256[1] # sha256[2]
    /\ "read" \in io[1] /\ seen[1] = "mismatch"
    /\ dest.exists /\ Digest(dest) = sha256[1]

\* C3 as stated: if no mirror serves content with the expected digest (here
\* even: the list is not empty, the destination did not match, and no read
\* failed), the call fails with IntegrityError, and the destination is left
\* as it was by the call.
C3_AlwaysIntegrityError ==
    /\ [](\A p \in Procs :
            (/\ Finished(p) /\ master_uris[p] > 0
             /\ seen[p] \in {"absent", "mismatch"}
             /\ NoMatchServed(p) /\ ret[p] # "ReadError")
            => ret[p] = "IntegrityError")
    /\ [][\A p \in Procs :
            (StepOf(p) /\ ~(pc'[p] = "done" /\ ret'[p] = "destination"))
            => dest' = dest]_vars
\* C3 amended: if no mirror serves content with the expected digest and the
\* destination does not already match, the call fails and installs nothing:
\* with IntegrityError (ReadError if the read fails) when the downloader
\* ended with a file at tempname, with DownloadError (ConfigError for an
\* empty list) when it did not; and the destination is changed by no step of
\* a call other than the one that returns destination.
C3_NoMatchFails ==
    /\ [](\A p \in Procs :
            (Finished(p) /\ seen[p] \in {"absent", "mismatch"} /\ NoMatchServed(p))
            => /\ ret[p] \in Errors
               /\ "rename" \notin io[p]
               /\ download_result[p].ok => ret[p] \in {"IntegrityError", "ReadError"}
               /\ ~download_result[p].ok => ret[p] \in {"DownloadError", "ConfigError"})
    /\ [][\A p \in Procs :
            (StepOf(p) /\ ~(pc'[p] = "done" /\ ret'[p] = "destination"))
            => dest' = dest]_vars
\* A call was served corrupt content by its third mirror, after two mirrors
\* that left nothing, and failed with IntegrityError over an existing file.
C3_Witness ==
    /\ Finished(1) /\ ret[1] = "IntegrityError"
    /\ Len(tried[1]) = 3 /\ NoMatchServed(1) /\ ServedCorrupt(1)
    /\ seen[1] = "mismatch" /\ dest.exists

\* C4: every step of a call, except the step that returns destination,
\* leaves the destination's existence, content and permission bits as they
\* were: no failure path (ConfigError, DownloadError, IntegrityError,
\* ReadError) touches the destination.
C4_FailureLeavesDestination ==
    [][\A p \in Procs :
          (StepOf(p) /\ ~(pc'[p] = "done" /\ ret'[p] = "destination"))
          => dest' = dest]_vars
\* Two calls failed, one with IntegrityError and one with DownloadError, and
\* the destination holds a file.
C4_Witness ==
    /\ Finished(1) /\ ret[1] = "IntegrityError"
    /\ Finished(2) /\ ret[2] = "DownloadError"
    /\ dest.exists

\* C5: a call that finds the destination present with the expected digest
\* takes the fast path: it returns destination, issues no GET, makes no temp
\* name or temp file, and its permissions step leaves the content in place.
C5_FastPath ==
    /\ [](\A p \in Procs :
            seen[p] = "match"
            => /\ pc[p] \in {"fast", "done"}
               /\ Finished(p) => ret[p] = "destination"
               /\ tried[p] = <<>> /\ ~temp[p].exists
               /\ io[p] \subseteq {"exists", "read", "permissions"})
    /\ [][\A p \in Procs :
            /\ (/\ pc[p] = "check" /\ pc'[p] # "check"
                /\ dest.exists /\ Digest(dest) = sha256[p]
                /\ ret'[p] # "ReadError")
               => pc'[p] = "fast" /\ seen'[p] = "match"
            /\ (pc[p] = "fast" /\ pc'[p] = "done")
               => dest'.exists /\ ContentOf(dest') = ContentOf(dest)]_vars
\* A caller's second call found the destination correct and returned by the
\* fast path, with no I/O but the check and the permissions.
C5_Witness ==
    \E p \in Procs :
        /\ ncalls[p] = 2 /\ Finished(p) /\ seen[p] = "match"
        /\ ret[p] = "destination" /\ io[p] = {"exists", "read", "permissions"}

\* C6 as stated: a call with an empty master_uris list fails with
\* ConfigError and issues no GET, whatever the destination holds (here even:
\* no read failed).
C6_EmptyAlwaysConfigError ==
    \A p \in Procs :
        (Finished(p) /\ master_uris[p] = 0 /\ ret[p] # "ReadError")
        => ret[p] = "ConfigError" /\ "GET" \notin io[p]
\* C6 amended: a call with an empty master_uris list issues no GET; it fails
\* with ConfigError when the destination is absent or has another digest
\* than the expected one, and returns destination by the fast path when the
\* destination already has the expected digest (ReadError when the read of
\* the destination fails).
C6_EmptyList ==
    \A p \in Procs :
        (Finished(p) /\ master_uris[p] = 0)
        => /\ tried[p] = <<>> /\ "GET" \notin io[p]
           /\ seen[p] \in {"absent", "mismatch"} => ret[p] = "ConfigError"
           /\ seen[p] = "match" => ret[p] = "destination"
           /\ seen[p] = "ReadError" => ret[p] = "ReadError"
\* A call with no master uris failed with ConfigError over a destination
\* that holds a file with another digest.
C6_Witness ==
    /\ Finished(1) /\ master_uris[1] = 0 /\ ret[1] = "ConfigError"
    /\ seen[1] = "mismatch" /\ dest.exists

\* C7 as stated: a call that fails with ConfigError has done no I/O at all
\* before the failure.
C7_ConfigErrorBeforeAnyIO ==
    \A p \in Procs : ret[p] = "ConfigError" => io[p] = {}
\* C7 amended: a call that fails with ConfigError has issued no GET, made no
\* temp name or temp file and changed no permissions; it has checked that the
\* destination exists and, if it does, has read it for its digest.
C7_ConfigErrorAfterCheckOnly ==
    \A p \in Procs :
        ret[p] = "ConfigError"
        => /\ "exists" \in io[p]
           /\ io[p] \subseteq {"exists", "read"}
           /\ "read" \in io[p] <=> seen[p] = "mismatch"
           /\ tried[p] = <<>> /\ ~temp[p].exists
\* A call failed with ConfigError after reading the destination's digest.
C7_Witness ==
    /\ ret[1] = "ConfigError" /\ io[1] = {"exists", "read"}

\* The GETs of p's call so far: all but the last failed mirror-locally, and
\* the last answered with a status below 400 and left content with the
\* expected digest.
FallbackPattern(p) ==
    LET k == Len(tried[p]) IN
    /\ k >= 1
    /\ \A j \in 1..(k - 1) : tried[p][j].kind \in MirrorLocal
    /\ tried[p][k].kind = "ok"
    /\ tried[p][k].left.exists
    /\ Digest(tried[p][k].left) = sha256[p]

\* C8: when every mirror before mirror k failed mirror-locally and mirror k
\* answered below 400 with content of the expected digest (read without
\* fault by the verifier), the call returns destination, the destination has
\* the expected digest on return, and the warnings logged are one per failed
\* mirror, naming the mirrors 1..k-1 in order.
C8_FallbackSucceeds ==
    \A p \in Procs :
        (Finished(p) /\ FallbackPattern(p) /\ ret[p] # "ReadError")
        => /\ ret[p] = "destination"
           /\ dest.exists /\ Digest(dest) = sha256[p]
           /\ warnings[p] = [j \in 1..(Len(tried[p]) - 1) |-> j]
\* Two mirrors failed, one by its status and one in the transfer, the third
\* served the file, and the call returned over what was a different file.
C8_Witness ==
    /\ Finished(1) /\ FallbackPattern(1) /\ Len(tried[1]) = 3
    /\ tried[1][1].kind = "http_error"
    /\ tried[1][2].kind = "file_download_exception"
    /\ seen[1] = "mismatch"
    /\ ret[1] = "destination" /\ warnings[1] = <<1, 2>>

\* C9: a setup-class failure on the GET to mirror k is the last GET of the
\* call: the call is over, it failed with DownloadError naming that
\* failure, and no GET went to a mirror after k.
C9_FatalAborts ==
    \A p \in Procs :
        \A j \in 1..Len(tried[p]) :
            tried[p][j].kind = "request_exception"
            => /\ j = Len(tried[p])
               /\ Finished(p) /\ ret[p] = "DownloadError"
               /\ errmsg[p] = Msg("request_exception", j)
\* The first of three mirrors failed in the setup class, and the call is
\* over after that one GET.
C9_Witness ==
    /\ master_uris[1] = 3 /\ Len(tried[1]) = 1
    /\ tried[1][1].kind = "request_exception"
    /\ Finished(1) /\ ret[1] = "DownloadError"

\* C10: a call that failed with IntegrityError has removed its temp file:
\* nothing is at tempname when the error is returned.
C10_IntegrityErrorRemovesTemp ==
    \A p \in Procs : ret[p] = "IntegrityError" => ~temp[p].exists
\* A call was left a truncated file by the transport and failed with
\* IntegrityError after removing it.
C10_Witness ==
    /\ ret[1] = "IntegrityError" /\ "remove" \in io[1]
    /\ Last(tried[1]).left.exists /\ Last(tried[1]).left.len = PartLen

\* C11: a call that failed with DownloadError, whether the mirrors were
\* exhausted or a setup-class failure ended the loop, leaves nothing at
\* tempname.
C11_DownloadErrorRemovesTemp ==
    \A p \in Procs : ret[p] = "DownloadError" => ~temp[p].exists

\* C12 as stated: the destination is changed by no step but the rename of a
\* temp file onto it.
C12_OnlyRenameTouchesDestination ==
    [][dest' # dest =>
          \E p \in Procs : pc[p] = "rename" /\ pc'[p] = "done"]_vars
\* C12 amended: the destination's existence and content are changed by the
\* rename alone, which puts the temp file there whole; the one other step
\* that touches the destination is the fast path's fs::permissions, which
\* sets its permission bits to NIX_TASK_FILE_PERMS and nothing else.
C12_RenameOrFastPathPermissions ==
    [][dest' # dest =>
          \E p \in Procs :
              \/ /\ pc[p] = "rename" /\ pc'[p] = "done"
                 /\ temp[p].exists /\ dest' = temp[p]
              \/ /\ pc[p] = "fast" /\ pc'[p] = "done"
                 /\ dest.exists
                 /\ dest' = [dest EXCEPT !.perms = NIX_TASK_FILE_PERMS]]_vars
\* One call renamed into place a file that a failed transfer had left with
\* other permission bits, and the other call's fast path has set them.
C12_Witness ==
    \E p, q \in Procs :
        /\ p # q /\ "rename" \in io[q] /\ Finished(q)
        /\ Last(tried[q]).left.perms # NIX_TASK_FILE_PERMS
        /\ Finished(p) /\ "permissions" \in io[p]
        /\ dest.exists /\ ContentOf(dest) = ContentOf(Last(tried[q]).left)
        /\ dest.perms = NIX_TASK_FILE_PERMS

\* The GET to mirror j of p's call came back to the loop (no setup-class
\* failure) and the check on line 120 found a file at tempname.
FoundFile(p, j) ==
    tried[p][j].kind # "request_exception" /\ tried[p][j].left.exists

\* C13: the GETs of a call go to the mirrors 1, 2, ... in list order, each
\* mirror at most once, and a GET goes to mirror k only after every earlier
\* mirror was tried and left nothing at tempname; once the check after a GET
\* finds a file the downloader has returned success = true and no further
\* GET follows; when the list is exhausted with no file found it has
\* returned success = false.
C13_MirrorsInOrder ==
    \A p \in Procs :
        LET n == Len(tried[p]) IN
        /\ n <= master_uris[p]
        /\ \A j \in 1..n : tried[p][j].mirror = j
        /\ \A j \in 1..(n - 1) :
              ~tried[p][j].left.exists /\ tried[p][j].kind # "request_exception"
        /\ (n >= 1 /\ FoundFile(p, n))
              => download_result[p].ok /\ pc[p] # "download"
        /\ download_result[p].ok => (n >= 1 /\ FoundFile(p, n))
        /\ (pc[p] = "download" /\ idx[p] > master_uris[p])
              => /\ n = master_uris[p] /\ ~download_result[p].ok
                 /\ \A j \in 1..n : ~tried[p][j].left.exists
\* The third of three mirrors left a file, after two that left none, and
\* the downloader returned success.
C13_Witness ==
    /\ master_uris[1] = 3 /\ Len(tried[1]) = 3
    /\ FoundFile(1, 3) /\ download_result[1].ok /\ pc[1] = "verify"

\* The call tried every mirror of a non-empty list and none ended the loop.
Exhausted(p) ==
    /\ Finished(p) /\ ret[p] = "DownloadError"
    /\ Len(tried[p]) = master_uris[p]
    /\ Last(tried[p]).kind # "request_exception"
\* The message of the latest mirror-local failure among p's GETs, if any.
LatestFailure(p) ==
    LET F == {j \in 1..Len(tried[p]) : tried[p][j].kind \in MirrorLocal} IN
    IF F = {} THEN NoMsg
    ELSE LET j == CHOOSE j \in F : \A i \in F : i <= j
         IN Msg(tried[p][j].kind, j)

\* C14 as stated: a DownloadError for exhausted mirrors carries the
\* diagnostic of the last mirror of the list.
C14_LastMirrorDiagnostic ==
    \A p \in Procs :
        Exhausted(p) => errmsg[p].mirror = master_uris[p]
\* C14 amended: a DownloadError for exhausted mirrors carries the message of
\* the latest mirror that failed mirror-locally: the last mirror's when that
\* one failed so, an earlier mirror's when the last one answered below 400
\* and left no file, and the empty message when no mirror failed so.
C14_LatestFailureDiagnostic ==
    \A p \in Procs :
        Exhausted(p)
        => /\ errmsg[p] = LatestFailure(p)
           /\ Last(tried[p]).kind \in MirrorLocal
                 => errmsg[p].mirror = master_uris[p]
\* Of three mirrors the first two failed mirror-locally and the last
\* answered below 400 leaving no file: the error names the second mirror.
C14_Witness ==
    /\ Exhausted(1) /\ master_uris[1] = 3
    /\ tried[1][1].kind = "http_error"
    /\ tried[1][2].kind = "file_download_exception"
    /\ tried[1][3].kind = "ok"
    /\ errmsg[1] = Msg("file_download_exception", 2)

\* C15 as stated: when the downloader returns success after a GET to the
\* first mirror only, its message is empty.
C15_FirstSuccessEmptyMessage ==
    \A p \in Procs :
        (download_result[p].ok /\ Len(tried[p]) = 1)
        => download_result[p].msg = NoMsg
\* C15 amended: when the downloader returns success after a GET to the first
\* mirror only, its message is empty if that GET raised no failure, and is
\* the message of that GET's mirror-local failure if it raised one and still
\* left a file at tempname.
C15_FirstSuccessMessage ==
    \A p \in Procs :
        (download_result[p].ok /\ Len(tried[p]) = 1)
        => /\ tried[p][1].kind = "ok" => download_result[p].msg = NoMsg
           /\ tried[p][1].kind \in MirrorLocal
                 => download_result[p].msg = Msg(tried[p][1].kind, 1)
           /\ tried[p][1].kind \in {"ok"} \cup MirrorLocal
\* The first GET failed with a status of 400 or more but left a file, and
\* the downloader returned success with a message.
C15_Witness ==
    /\ download_result[1].ok /\ Len(tried[1]) = 1
    /\ tried[1][1].kind = "http_error"
    /\ download_result[1].msg = Msg("http_error", 1)
    /\ warnings[1] = <<1>>

\* Caller p is inside a call of downloadFileFromMaster.
InCall(p) == pc[p] \notin {"idle", "done"}
Outcome == {"destination"} \cup Errors

\* C16: when every transport call and filesystem operation returns, every
\* call eventually finishes, by returning destination or failing with one of
\* the four error kinds; it has then issued at most |master_uris| GETs, to
\* mirrors of the list in strictly increasing position, so that no mirror
\* is tried twice and the loop never goes back.
C16_CallFinishes ==
    /\ [](\A p \in Procs :
            /\ Len(tried[p]) <= master_uris[p]
            /\ \A i, j \in 1..Len(tried[p]) :
                  i < j => tried[p][i].mirror < tried[p][j].mirror
            /\ \A j \in 1..Len(tried[p]) : tried[p][j].mirror \in 1..master_uris[p]
            /\ Finished(p) => ret[p] \in Outcome
            /\ InCall(p) => ret[p] = "none")
    /\ (InCall(1) ~> Finished(1))
\* A call went through all of its three mirrors and finished.
C16_Witness ==
    /\ Finished(1) /\ ret[1] \in Outcome
    /\ master_uris[1] = 3 /\ Len(tried[1]) = 3
    /\ ncalls[1] = MaxCalls

\* C17: when the loop found a file at tempname after a GET and that
\* content's digest is not the expected one, that GET is the first one to
\* leave a file and the last one of the call: the call verifies that very
\* content and fails, with IntegrityError once the digest is computed
\* (ReadError if the read fails), never renaming and never asking a
\* remaining mirror, whatever those would have served.
C17_NoFallbackOnMismatch ==
    \A p \in Procs :
        LET n == Len(tried[p]) IN
        (n >= 1 /\ FoundFile(p, n) /\ Digest(tried[p][n].left) # sha256[p])
        => /\ \A j \in 1..(n - 1) : ~tried[p][j].left.exists
           /\ pc[p] \in {"verify", "done"}
           /\ idx[p] = n
           /\ pc[p] = "verify" => temp[p] = tried[p][n].left
           /\ "rename" \notin io[p]
           /\ Finished(p)
                 => /\ ret[p] \in {"IntegrityError", "ReadError"}
                    /\ ret[p] = "IntegrityError" <=> "remove" \in io[p]
                    /\ ret[p] = "IntegrityError" => ~temp[p].exists
\* The first of three mirrors left content with another digest; the call
\* failed with IntegrityError after that single GET.
C17_Witness ==
    /\ master_uris[1] = 3 /\ Len(tried[1]) = 1
    /\ FoundFile(1, 1) /\ Digest(tried[1][1].left) # sha256[1]
    /\ Finished(1) /\ ret[1] = "IntegrityError"

\* Caller p's call passed verification and renamed.
Renamed(p) == Finished(p) /\ "rename" \in io[p]
\* What p's call renamed: the file its last GET left at its tempname.
Installed(p) == Last(tried[p]).left

\* C18: two concurrent calls for the same destination that both pass
\* verification work on temp files of their own; each rename replaces the
\* destination with the renaming call's verified temp file and leaves the
\* other call's temp file alone, so once both have returned (both with
\* destination) the destination holds what the later rename installed and
\* nothing is left at either tempname.
C18_LastRenameWins ==
    /\ [](\A p \in Procs :
            /\ Renamed(p) => ret[p] = "destination" /\ ~temp[p].exists
            /\ pc[p] = "rename"
                  => /\ temp[p] = Installed(p)
                     /\ Digest(temp[p]) = sha256[p])
    /\ []((Renamed(1) /\ Renamed(2))
            => /\ dest \in {Installed(1), Installed(2)}
               /\ ~temp[1].exists /\ ~temp[2].exists)
    /\ [][/\ \A p \in Procs :
               (pc[p] = "rename" /\ pc'[p] = "done")
               => /\ dest' = temp[p]
                  /\ ~temp'[p].exists
                  /\ \A q \in Procs \ {p} : temp'[q] = temp[q]
          /\ ContentChanged
               => \E p \in Procs : pc[p] = "rename" /\ pc'[p] = "done"]_vars
\* Both calls renamed files of different content; caller 2 renamed second,
\* and the destination holds caller 2's file.
C18_Witness ==
    /\ Renamed(1) /\ Renamed(2)
    /\ ret[1] = "destination" /\ ret[2] = "destination"
    /\ ContentOf(Installed(1)) # ContentOf(Installed(2))
    /\ dest = Installed(2)
    /\ ~temp[1].exists /\ ~temp[2].exists

\* Two contents are the same bytes.
SameBytes(c, d) == c.len = d.len /\ (c.len = 0 \/ c.src = d.src)
\* The read of content c meets the fault.
FaultMet(c, fault) == fault # NoError /\ fault < c.len

\* C19: for a file of any length (empty, shorter than a chunk, whole chunks,
\* whole chunks and a remainder) calculateSha256 returns the hash of the
\* file's whole content, each byte fed once and in order, when no read
\* fails, and the read error in place of a digest when a read fails before
\* the end of the file; files of the same bytes get the same digest.
C19_DigestOfWholeContent ==
    /\ \A i \in 1..Len(sha_out) :
          LET c == ContentOf(sha_in[i].file)
              fault == sha_in[i].fault
          IN /\ ~FaultMet(c, fault) => sha_out[i] = Sha256Of(c)
             /\ FaultMet(c, fault) => sha_out[i] = ReadError
    /\ Len(sha_out) = 2
          => LET c == ContentOf(sha_in[1].file)
                 d == ContentOf(sha_in[2].file)
             IN (/\ SameBytes(c, d)
                 /\ ~FaultMet(c, sha_in[1].fault)
                 /\ ~FaultMet(d, sha_in[2].fault))
                => sha_out[1] = sha_out[2]
\* Two files of one chunk and one byte, of the same bytes and different
\* permission bits, were hashed without a fault and got the digest of all
\* their bytes.
C19_Witness ==
    /\ Len(sha_out) = 2
    /\ sha_in[1].file.len = CHUNK_SIZE + 1 /\ sha_in[2].file.len = CHUNK_SIZE + 1
    /\ sha_in[1].file.src = sha_in[2].file.src
    /\ sha_in[1].file.perms # sha_in[2].file.perms
    /\ sha_in[1].fault = NoError /\ sha_in[2].fault = CHUNK_SIZE + CHUNK_SIZE
    /\ sha_out[1] = sha_out[2]
    /\ sha_out[1].bytes = CHUNK_SIZE + 1 /\ sha_out[1].hex = "lower"

\* The pieces of s between the occurrences of sep.
RECURSIVE Split(_, _)
Split(s, sep) ==
    IF \A i \in 1..Len(s) : s[i] # sep THEN <<s>>
    ELSE LET i == CHOOSE k \in 1..Len(s) :
                      s[k] = sep /\ \A j \in 1..(k - 1) : s[j] # sep
         IN <<SubSeq(s, 1, i - 1)>> \o Split(SubSeq(s, i + 1, Len(s)), sep)
Count(s, ch) == Cardinality({i \in 1..Len(s) : s[i] = ch})
\* The members of the uri's params object; none when it is absent.
ParamsOf(u) == IF u.present THEN u.params ELSE <<>>

\* C20: createUrlEndpoint returns the path unchanged when params is absent
\* or empty; for n >= 1 params it returns the path, one "?", and then the n
\* encoded key=value pairs, each once and in the order of the keys, with
\* n - 1 "&" between them and none at the end; building the endpoint of the
\* same uri again gives the same string.
C20_EndpointShape ==
    /\ \A c \in 1..Len(endpoint) :
          LET out == endpoint[c]
              params == ParamsOf(uri)
              n == Len(params)
              P == Len(uri.path)
          IN /\ n = 0 => out = uri.path
             /\ n >= 1
                  => /\ Len(out) >= P + 2
                     /\ SubSeq(out, 1, P) = uri.path
                     /\ out[P + 1] = "?"
                     /\ Last(out) # "&"
                     /\ LET query == SubSeq(out, P + 2, Len(out))
                            pairs == Split(query, "&")
                        IN /\ Count(query, "?") = 0
                           /\ Count(query, "&") = n - 1
                           /\ Count(query, "=") = n
                           /\ Len(pairs) = n
                           /\ \A i \in 1..n :
                                 pairs[i] = curl_escaped_string(params[i].key)
                                            \o <<"=">>
                                            \o curl_escaped_string(params[i].val)
    /\ Len(endpoint) = 2 => endpoint[1] = endpoint[2]
\* A uri with two params, whose strings hold "&", "=", " ", "+" and ":", was
\* built twice: "/t?k%26v=%3D&a%20%2B%3A=k" both times.
C20_Witness ==
    /\ Len(endpoint) = 2
    /\ uri.path = <<"/", "t">> /\ uri.present
    /\ uri.params = << [key |-> <<"k", "&", "v">>, val |-> <<"=">>],
                       [key |-> <<"a", " ", "+", ":">>, val |-> <<"k">>] >>
    /\ endpoint[1] = <<"/", "t", "?", "k", "%", "2", "6", "v", "=", "%", "3", "D",
                       "&", "a", "%", "2", "0", "%", "2", "B", "%", "3", "A",
                       "=", "k">>
    /\ endpoint[2] = endpoint[1]

====
